---- MODULE Spec2Model ----
(***************************************************************************)
(* Model of the oil-tenders ingestion job (src/ingest.py).                 *)
(*                                                                         *)
(* Python values are records [kind, s, n]: None, a str (s is the text as a *)
(* sequence of tokens: single characters, or an atomic literal such as     *)
(* "<br>" or "window"), an int (n), a parsed datetime/date (s is its ISO   *)
(* form).  A call that raises yields Raise(<exception>).                    *)
(***************************************************************************)
EXTENDS Integers, Sequences, FiniteSets, TLC

VARIABLES
    store,       \* committed rows of public.<table>, in insertion order
    created,     \* whether the table exists
    pc,          \* per run: the position of main()
    env,         \* per run: the process environment (configuration)
    feed,        \* per run: the aaData list the HTTP GET returned
    rows,        \* per run: fetch_data() result after rows.sort
    autocommit,  \* per run: conn.autocommit
    records,     \* per run: upsert_rows' records (new_rows)
    i,           \* per run: upsert_rows' batch offset
    chunk,       \* per run: rows of the current executemany still to execute
    pending,     \* per run: rows inserted by the open transaction
    inserted,    \* per run: the count main prints as "Inserted new" (-1: none)
    fetched,     \* per run: the count main prints as "Fetched" (-1: none)
    err,         \* per run: the error that ended the run ("" while none)
    io,          \* per run: the kinds of I/O performed so far
    table_name,  \* per run: the table name main() passes on
    store0,      \* per run: the stored rows when the run started
    rerun,       \* per run: invoked again after a completed run, the feed unchanged
    arg,         \* input of the function under check (function specifications)
    ret          \* its result

vars == <<store, created, pc, env, feed, rows, autocommit, records, i, chunk,
          pending, inserted, fetched, err, io, table_name, store0, rerun,
          arg, ret>>

---------------------------------------------------------------------------
(* Python values *)

None == [kind |-> "none", s |-> <<>>, n |-> 0]

Str(s) == [kind |-> "str", s |-> s, n |-> 0]

IntVal(n) == [kind |-> "int", s |-> <<>>, n |-> n]

Raise(e) == [kind |-> "raise", s |-> <<e>>, n |-> 0]

NotCalled == [kind |-> "notcalled", s |-> <<>>, n |-> 0]

IsRaise(v) == v.kind = "raise"

\* Python truth value: None, "" and 0 are false
Truthy(v) ==
    CASE v.kind = "none" -> FALSE
      [] v.kind = "str"  -> v.s # <<>>
      [] v.kind = "int"  -> v.n # 0
      [] OTHER           -> TRUE

\* Python `v or d`
Or(v, d) == IF Truthy(v) THEN v ELSE d

Whitespace == {" ", "\n", "\t"}

RECURSIVE LStrip(_)
LStrip(s) == IF s # <<>> /\ Head(s) \in Whitespace THEN LStrip(Tail(s)) ELSE s

RECURSIVE RStrip(_)
RStrip(s) ==
    IF s # <<>> /\ s[Len(s)] \in Whitespace
    THEN RStrip(SubSeq(s, 1, Len(s) - 1))
    ELSE s

\* str.strip(); a value that is not a str has no .strip
strip(v) == IF v.kind = "str" THEN Str(RStrip(LStrip(v.s))) ELSE Raise("AttributeError")

Digits == {"0", "1", "2", "3", "4", "5", "6", "7", "8", "9"}

DigitValue(c) ==
    CASE c = "0" -> 0 [] c = "1" -> 1 [] c = "2" -> 2 [] c = "3" -> 3
      [] c = "4" -> 4 [] c = "5" -> 5 [] c = "6" -> 6 [] c = "7" -> 7
      [] c = "8" -> 8 [] c = "9" -> 9

DigitChar(d) == <<"0", "1", "2", "3", "4", "5", "6", "7", "8", "9">>[d + 1]

RECURSIVE NatToStr(_)
NatToStr(n) == IF n < 10 THEN <<DigitChar(n)>> ELSE Append(NatToStr(n \div 10), DigitChar(n % 10))

\* str(v)
py_str(v) ==
    CASE v.kind = "str" -> v
      [] v.kind = "int" -> Str(IF v.n < 0 THEN <<"-">> \o NatToStr(-v.n) ELSE NatToStr(v.n))
      [] OTHER          -> Str(<<"N", "o", "n", "e">>)

RECURSIVE DigitsToNat(_)
DigitsToNat(s) ==
    IF s = <<>> THEN 0 ELSE 10 * DigitsToNat(SubSeq(s, 1, Len(s) - 1)) + DigitValue(s[Len(s)])

AllDigits(s) == s # <<>> /\ \A k \in 1..Len(s) : s[k] \in Digits

\* int(<str>): optional sign, then decimal digits
py_int(v) ==
    IF v.kind # "str" \/ v.s = <<>> THEN Raise("ValueError")
    ELSE IF Head(v.s) \in {"-", "+"}
         THEN IF AllDigits(Tail(v.s))
              THEN IntVal((IF Head(v.s) = "-" THEN -1 ELSE 1) * DigitsToNat(Tail(v.s)))
              ELSE Raise("ValueError")
         ELSE IF AllDigits(v.s) THEN IntVal(DigitsToNat(v.s)) ELSE Raise("ValueError")

---------------------------------------------------------------------------
(* html_to_text *)

BrTags == {"<br>", "<br/>", "<br />"}

\* markup that the replace of line 31 leaves for BeautifulSoup
OtherTags == {"<b>", "</b>", "<p>", "</p>", "<BR>"}

\* value.replace("<br>", "\n").replace("<br/>", "\n").replace("<br />", "\n")
ReplaceBr(s) == [k \in 1..Len(s) |-> IF s[k] \in BrTags THEN "\n" ELSE s[k]]

\* the text nodes of the parsed markup: the maximal runs of text between tags
RECURSIVE TextNodes(_, _, _)
TextNodes(s, cur, acc) ==
    LET flushed == IF cur = <<>> THEN acc ELSE Append(acc, cur)
    IN  IF s = <<>> THEN flushed
        ELSE IF Head(s) \in OtherTags \cup BrTags
             THEN TextNodes(Tail(s), <<>>, flushed)
             ELSE TextNodes(Tail(s), Append(cur, Head(s)), acc)

RECURSIVE Join(_, _)
Join(nodes, sep) ==
    IF nodes = <<>> THEN <<>>
    ELSE IF Len(nodes) = 1 THEN nodes[1]
    ELSE nodes[1] \o sep \o Join(Tail(nodes), sep)

\* soup.get_text with a joiner that drops the separator
get_text_nosep(s, sep) == Join(TextNodes(s, <<>>, <<>>), <<>>)

\* BeautifulSoup(value, "html.parser").get_text(sep)
get_text(s, sep) == Join(TextNodes(s, <<>>, <<>>), sep)

html_to_text(value) ==
    IF value.kind = "none" THEN Str(<<>>)
    ELSE IF value.kind # "str" THEN Raise("AttributeError")
    ELSE strip(Str(get_text(ReplaceBr(value.s), <<"\n">>)))

---------------------------------------------------------------------------
(* _validated_table_name *)

Letters ==
    {"a", "b", "c", "d", "e", "f", "g", "h", "i", "j", "k", "l", "m", "n", "o",
     "p", "q", "r", "s", "t", "u", "v", "w", "x", "y", "z", "A", "N", "Z"}

default == Str(<<"o", "i", "l", "_", "o", "f", "f", "e", "r", "s", "_",
                 "e", "x", "p", "o", "r", "t">>)

\* re.match(r"^[A-Za-z_][A-Za-z0-9_]*$", name); $ also matches before a final "\n"
MatchIdent(s) ==
    LET body == IF s # <<>> /\ s[Len(s)] = "\n" THEN SubSeq(s, 1, Len(s) - 1) ELSE s
    IN  /\ body # <<>>
        /\ body[1] \in Letters \cup {"_"}
        /\ \A k \in 2..Len(body) : body[k] \in Letters \cup Digits \cup {"_"}

\* a validation that falls back to the default for an invalid name too
validated_fallback(name) ==
    IF ~Truthy(name) THEN default
    ELSE LET t == strip(name)
         IN  IF IsRaise(t) THEN t
             ELSE IF t.s = <<>> \/ ~MatchIdent(t.s) THEN default
             ELSE t

validated_table_name(name) ==
    IF ~Truthy(name) THEN default
    ELSE LET t == strip(name)
         IN  IF IsRaise(t) THEN t
             ELSE IF t.s = <<>> THEN default
             ELSE IF ~MatchIdent(t.s) THEN Raise("ValueError")
             ELSE t

---------------------------------------------------------------------------
(* extract_pdf_url *)

\* literals of more than one character that the texts are tokenised into
Words == {"window", "open", "descarga_pdf_oferta", "php", "http", "://"}
             \cup BrTags \cup OtherTags

\* the regular expression's `.`: any one character but a line break
AnyChar(c) == c \notin Words /\ c # "\n"

\* the first "'" of s at or after position p (0 when there is none)
RECURSIVE NextQuote(_, _)
NextQuote(s, p) ==
    IF p > Len(s) THEN 0 ELSE IF s[p] = "'" THEN p ELSE NextQuote(s, p + 1)

\* ([^']+descarga_pdf_oferta\\.php\?[^']+) against the whole of g: in the raw
\* string of line 57, \\ is a literal backslash and the . after it any character
GroupMatches(g) ==
    \E k \in 2..Len(g) :
        /\ k + 5 <= Len(g)
        /\ g[k] = "descarga_pdf_oferta"
        /\ g[k + 1] = "\\"
        /\ AnyChar(g[k + 2])
        /\ g[k + 3] = "php"
        /\ g[k + 4] = "?"

\* the pattern of line 57 matched at position p of s: the group, or <<>>
MatchAt(s, p) ==
    IF /\ p + 4 <= Len(s)
       /\ s[p] = "window" /\ AnyChar(s[p + 1]) /\ s[p + 2] = "open"
       /\ s[p + 3] = "(" /\ s[p + 4] = "'"
    THEN LET q == NextQuote(s, p + 5)
             g == IF q = 0 THEN <<>> ELSE SubSeq(s, p + 5, q - 1)
         IN  IF GroupMatches(g) THEN g ELSE <<>>
    ELSE <<>>

\* re.search: group 1 of the leftmost match, or <<>> when there is no match
RECURSIVE Search(_, _)
Search(s, p) ==
    IF p > Len(s) THEN <<>>
    ELSE IF MatchAt(s, p) # <<>> THEN MatchAt(s, p)
    ELSE Search(s, p + 1)

\* the last position of "/" in u (0 when there is none)
RECURSIVE LastSlash(_, _)
LastSlash(u, p) == IF p = 0 THEN 0 ELSE IF u[p] = "/" THEN p ELSE LastSlash(u, p - 1)

RECURSIVE FirstSlash(_, _)
FirstSlash(u, p) ==
    IF p > Len(u) THEN 0 ELSE IF u[p] = "/" THEN p ELSE FirstSlash(u, p + 1)

\* requests.compat.urljoin(base, path) for a path without a scheme; "://" is one
\* token, so every "/" of base separates path segments
urljoin(base, path) ==
    IF path # <<>> /\ path[1] = "/"
    THEN (IF FirstSlash(base, 1) = 0 THEN base
          ELSE SubSeq(base, 1, FirstSlash(base, 1) - 1)) \o path
    ELSE IF LastSlash(base, Len(base)) = 0 THEN base \o <<"/">> \o path
    ELSE SubSeq(base, 1, LastSlash(base, Len(base))) \o path

extract_pdf_url(value, URL) ==
    IF ~Truthy(value) THEN None
    ELSE IF value.kind # "str" THEN Raise("TypeError")
    ELSE LET path == Search(value.s, 1)
         IN  IF path = <<>> THEN None
             ELSE IF path[1] = "http" THEN Str(path)
             ELSE Str(urljoin(URL.s, path))

---------------------------------------------------------------------------
(* parse_row *)

\* def clean(i)
clean(row, k) == IF k < Len(row) THEN row[k + 1] ELSE None

\* dateutil's parser.parse(s, dayfirst=True) for the texts D/M/Y of one-token
\* day, month and year; any other text, and any value that is not a str, raises
dateparser_parse(v) ==
    IF /\ v.kind = "str" /\ Len(v.s) = 5 /\ v.s[2] = "/" /\ v.s[4] = "/"
       /\ v.s[1] \in Digits /\ v.s[3] \in Digits /\ v.s[5] \in Digits
    THEN [kind |-> "datetime", s |-> <<v.s[5], "-", v.s[3], "-", v.s[1], "T">>, n |-> 0]
    ELSE IF v.kind = "str" THEN Raise("ParserError") ELSE Raise("TypeError")

parse_dt(v) ==
    IF ~Truthy(v) THEN None
    ELSE IF IsRaise(dateparser_parse(v)) THEN None ELSE dateparser_parse(v)

parse_d(v) ==
    LET dt == parse_dt(v)
    IN  IF Truthy(dt) THEN [kind |-> "date", s |-> SubSeq(dt.s, 1, 5), n |-> 0] ELSE None

\* id_ of lines 90-93
parse_id(raw_id) ==
    IF raw_id.kind = "none" THEN None
    ELSE LET t == py_int(strip(py_str(raw_id)))
         IN  IF IsRaise(t) THEN None ELSE t

\* the first exception among the values, in evaluation order, or None
RECURSIVE FirstRaise(_)
FirstRaise(vs) ==
    IF vs = <<>> THEN None ELSE IF IsRaise(Head(vs)) THEN Head(vs) ELSE FirstRaise(Tail(vs))

parse_row(row, URL) ==
    LET product  == html_to_text(Or(clean(row, 3), Str(<<>>)))
        notes    == html_to_text(Or(clean(row, 10), Str(<<>>)))
        basin    == html_to_text(Or(clean(row, 11), Str(<<>>)))
        pdf_url  == extract_pdf_url(Or(clean(row, 12), Str(<<>>)), URL)
        company  == strip(Or(clean(row, 2), Str(<<>>)))
        volume   == strip(Or(clean(row, 4), Str(<<>>)))
        price    == strip(Or(clean(row, 7), Str(<<>>)))
        ncm      == strip(Or(clean(row, 8), Str(<<>>)))
        location == strip(Or(clean(row, 9), Str(<<>>)))
        vtext    == html_to_text(Or(clean(row, 13), Str(<<>>)))
        vigente  == IF IsRaise(vtext) THEN vtext ELSE Or(strip(vtext), None)
        exc      == FirstRaise(<<product, notes, basin, pdf_url, company, volume,
                                 price, ncm, location, vigente>>)
    IN  IF IsRaise(exc) THEN exc
        ELSE [id                |-> parse_id(clean(row, 0)),
              published_at      |-> parse_dt(clean(row, 1)),
              company           |-> company,
              product           |-> product,
              volume            |-> volume,
              delivery_start    |-> parse_d(clean(row, 5)),
              delivery_end      |-> parse_d(clean(row, 6)),
              price_formula     |-> price,
              ncm               |-> ncm,
              delivery_location |-> location,
              notes             |-> notes,
              basin             |-> basin,
              pdf_url           |-> pdf_url,
              vigente           |-> vigente]

---------------------------------------------------------------------------
(* Configuration and feeds *)

Runs == {1, 2}

\* the longest feed of the sequential specification
MaxFeed == 3

\* the longest feed of the specification of overlapping runs
MaxFeedConc == 2

\* batch_size of upsert_rows, scaled down from 500 so that a feed of MaxFeed
\* records spans more than one batch
batch_size == 2

ORIGIN == Str(<<"http", "://", "h", "/", "d", "/", "f">>)

Env ==
    [url |-> ORIGIN, table |-> None, host |-> Str(<<"h">>), port |-> None,
     dbname |-> None, user |-> Str(<<"u">>), password |-> Str(<<"p">>)]

\* the environments main() is run in: complete, or with one setting wrong
Envs ==
    {Env,
     [Env EXCEPT !.url = None],
     [Env EXCEPT !.url = Str(<<" ", "N", "o", "n", "e">>)],
     [Env EXCEPT !.table = Str(<<"t", ";">>)],
     [Env EXCEPT !.host = None],
     [Env EXCEPT !.password = Str(<<>>)],
     [Env EXCEPT !.dbname = Str(<<>>)]}

R1a == <<Str(<<"1">>), None, Str(<<"a">>)>>

R1b == <<Str(<<" ", "1">>), None, Str(<<"b">>)>>

R2a == <<Str(<<"2">>), None, Str(<<"a">>)>>

Rbad == <<Str(<<"x">>)>>

FeedRecords == {R1a, R1b, R2a, Rbad}

\* the feeds of at most n records of set recs
Feeds(recs, n) == UNION {[1..k -> recs] : k \in 0..n}

\* str.lower() on the letters the settings use
Lower(s) == [k \in 1..Len(s) |-> IF s[k] = "N" THEN "n" ELSE IF s[k] = "A" THEN "a" ELSE IF s[k] = "Z" THEN "z" ELSE s[k]]

\* not URL or str(URL).strip().lower() in {"", "none"}
url_missing(url) ==
    \/ ~Truthy(url)
    \/ Lower(strip(py_str(url)).s) \in {<<>>, <<"n", "o", "n", "e">>}

\* os.getenv(name, default)
getenv(v, d) == IF v.kind = "none" THEN d ELSE v

\* not all([host, dbname, user, password])
creds_missing(e) ==
    \/ ~Truthy(e.host)
    \/ ~Truthy(getenv(e.dbname, Str(<<"p", "o", "s", "t", "g", "r", "e", "s">>)))
    \/ ~Truthy(e.user)
    \/ ~Truthy(e.password)

Raised(res) == "kind" \in DOMAIN res /\ res.kind = "raise"

\* list.sort(key=lambda r: r["id"]): stable, ascending
RECURSIVE InsertSorted(_, _)
InsertSorted(sorted, r) ==
    IF sorted = <<>> THEN <<r>>
    ELSE IF sorted[Len(sorted)].id.n <= r.id.n THEN Append(sorted, r)
    ELSE Append(InsertSorted(SubSeq(sorted, 1, Len(sorted) - 1), r), sorted[Len(sorted)])

RECURSIVE SortById(_)
SortById(seq) ==
    IF seq = <<>> THEN <<>>
    ELSE InsertSorted(SortById(SubSeq(seq, 1, Len(seq) - 1)), seq[Len(seq)])

\* parse_row of each feed record, tabulated so that it is evaluated once
ParsedRecord == [rec \in FeedRecords |-> parse_row(rec, ORIGIN)]

\* fetch_data on the body {"aaData": f}: the parsed rows that have an id, or
\* the exception of a record parse_row raises on
fetch_data(f, URL) ==
    LET parsed == [k \in 1..Len(f) |->
                     IF URL = ORIGIN /\ f[k] \in FeedRecords
                     THEN ParsedRecord[f[k]]
                     ELSE parse_row(f[k], URL)]
        HasId(p) == p.id.kind # "none"
    IN  IF \E k \in 1..Len(f) : Raised(parsed[k])
        THEN [exc |-> Raise("parse_row"), rows |-> <<>>]
        ELSE [exc |-> None, rows |-> SelectSeq(parsed, HasId)]

---------------------------------------------------------------------------
(* The table *)

Conflict(tbl, row) == \E k \in 1..Len(tbl) : tbl[k].id = row.id

\* a plain insert into a table with no key on id
insert_plain(visible, row) == <<[op |-> "insert", row |-> row]>>

\* insert ... on conflict (id) do update
insert_do_update(visible, row) ==
    IF Conflict(visible, row)
    THEN <<[op |-> "update", row |-> row]>>
    ELSE <<[op |-> "insert", row |-> row]>>

\* insert ... on conflict (id) do nothing, against the primary key of line 173:
\* the writes the statement makes, given the rows it can see
insert_do_nothing(visible, row) ==
    IF Conflict(visible, row) THEN <<>> ELSE <<[op |-> "insert", row |-> row]>>

\* the table after the writes w
RECURSIVE Apply(_, _)
Apply(tbl, w) ==
    IF w = <<>> THEN tbl
    ELSE IF Head(w).op = "insert" THEN Apply(Append(tbl, Head(w).row), Tail(w))
    ELSE Apply([k \in 1..Len(tbl) |->
                   IF tbl[k].id = Head(w).row.id THEN Head(w).row ELSE tbl[k]],
               Tail(w))

\* new_rows without the filter on the ids already stored
new_rows_all(rs, tbl) == rs

\* select id ... where id = any(ids), then new_rows of line 235
new_rows(rs, tbl) ==
    LET existing_ids == {tbl[k].id : k \in 1..Len(tbl)}
        IsNew(r) == r.id \notin existing_ids
    IN  SelectSeq(rs, IsNew)

\* ensure_table leaving the connection in autocommit mode
autocommit_left_on(prev) == TRUE

\* conn.autocommit after ensure_table: finally: conn.autocommit = prev_autocommit
autocommit_after_ddl(prev) == prev

Event(op, table) == [op |-> op, table |-> table]

---------------------------------------------------------------------------
(* main(), one action per step between two points of I/O *)

Fail(r, e) ==
    /\ pc' = [pc EXCEPT ![r] = "failed"]
    /\ err' = [err EXCEPT ![r] = e]

\* main prints the counts; the with block commits and closes the connection
Finish(r, n) ==
    /\ pc' = [pc EXCEPT ![r] = "done"]
    /\ inserted' = [inserted EXCEPT ![r] = n]
    /\ fetched' = [fetched EXCEPT ![r] = Len(rows[r])]

Log(r, ev) == io' = [io EXCEPT ![r] = Append(@, ev)]

PendingRows(r) == [k \in 1..Len(pending[r]) |-> pending[r][k].row]

\* lines 19-24, at import
Import(r) ==
    /\ pc[r] = "start"
    /\ store0' = [store0 EXCEPT ![r] = store]
    /\ IF url_missing(env[r].url)
       THEN Fail(r, "config_url")
       ELSE pc' = [pc EXCEPT ![r] = "imported"] /\ err' = err
    /\ UNCHANGED <<store, created, env, feed, rows, autocommit, records, i, chunk,
                   pending, inserted, fetched, io, table_name, rerun, arg, ret>>

\* lines 257-258
Validate(r) ==
    /\ pc[r] = "imported"
    /\ LET v == validated_table_name(Or(env[r].table, default))
       IN  IF IsRaise(v)
           THEN Fail(r, "config_table") /\ table_name' = table_name
           ELSE /\ table_name' = [table_name EXCEPT ![r] = v]
                /\ pc' = [pc EXCEPT ![r] = "validated"]
                /\ err' = err
    /\ UNCHANGED <<store, created, env, feed, rows, autocommit, records, i, chunk,
                   pending, inserted, fetched, io, store0, rerun,
                   arg, ret>>

\* lines 259-261: the GET answers with the feed f
Fetch(r, F) ==
    /\ pc[r] = "validated"
    /\ \E f \in (IF rerun[r] THEN {feed[r]} ELSE F) :
         LET res == fetch_data(f, env[r].url)
         IN  /\ feed' = [feed EXCEPT ![r] = f]
             /\ IF IsRaise(res.exc)
                THEN Fail(r, "parse") /\ rows' = rows
                ELSE /\ rows' = [rows EXCEPT ![r] = SortById(res.rows)]
                     /\ pc' = [pc EXCEPT ![r] = "fetched"]
                     /\ err' = err
    /\ Log(r, Event("http", None))
    /\ UNCHANGED <<store, created, env, autocommit, records, i, chunk, pending,
                   inserted, fetched, table_name, store0, rerun, arg, ret>>

\* lines 137-138: the GET fails, or answers with an error status
FetchFail(r) ==
    /\ pc[r] = "validated"
    /\ Log(r, Event("http", None))
    /\ Fail(r, "transport")
    /\ UNCHANGED <<store, created, env, feed, rows, autocommit, records, i, chunk,
                   pending, inserted, fetched, table_name, store0, rerun,
                   arg, ret>>

\* get_db_conn
Connect(r) ==
    /\ pc[r] = "fetched"
    /\ IF IsRaise(py_int(getenv(env[r].port, Str(<<"6", "5", "4", "3">>))))
       THEN Fail(r, "config_port") /\ io' = io /\ autocommit' = autocommit
       ELSE IF creds_missing(env[r])
       THEN Fail(r, "config_db") /\ io' = io /\ autocommit' = autocommit
       ELSE /\ Log(r, Event("connect", None))
            /\ autocommit' = [autocommit EXCEPT ![r] = FALSE]
            /\ pc' = [pc EXCEPT ![r] = "connected"]
            /\ err' = err
    /\ UNCHANGED <<store, created, env, feed, rows, records, i, chunk, pending,
                   inserted, fetched, table_name, store0, rerun,
                   arg, ret>>

\* ensure_table: the DDL runs with conn.autocommit = True
EnsureTable(r) ==
    /\ pc[r] = "connected"
    /\ LET v == validated_table_name(table_name[r])
       IN  IF IsRaise(v)
           THEN /\ Fail(r, "config_table")
                /\ UNCHANGED <<created, io, autocommit>>
           ELSE /\ created' = TRUE
                /\ Log(r, Event("create", v))
                /\ autocommit' = [autocommit EXCEPT ![r] = autocommit_after_ddl(@)]
                /\ pc' = [pc EXCEPT ![r] = "ensured"]
                /\ err' = err
    /\ UNCHANGED <<store, env, feed, rows, records, i, chunk, pending, inserted,
                   fetched, table_name, store0, rerun, arg, ret>>

\* upsert_rows, lines 205-246
Select(r) ==
    /\ pc[r] = "ensured"
    /\ LET v  == validated_table_name(table_name[r])
           nr == new_rows(rows[r], store)
       IN  IF rows[r] = <<>>
           THEN Finish(r, 0) /\ UNCHANGED <<err, io, records, i, chunk>>
           ELSE IF IsRaise(v)
           THEN /\ Fail(r, "config_table")
                /\ UNCHANGED <<io, records, i, chunk, inserted, fetched>>
           ELSE /\ Log(r, Event("select", v))
                /\ IF nr = <<>>
                   THEN Finish(r, 0) /\ UNCHANGED <<err, records, i, chunk>>
                   ELSE /\ records' = [records EXCEPT ![r] = nr]
                        /\ i' = [i EXCEPT ![r] = 0]
                        /\ chunk' = [chunk EXCEPT ![r] = <<>>]
                        /\ pc' = [pc EXCEPT ![r] = "inserting"]
                        /\ UNCHANGED <<err, inserted, fetched>>
    /\ UNCHANGED <<store, created, env, feed, rows, autocommit, pending,
                   table_name, store0, rerun, arg, ret>>

\* line 249-250: the next chunk of the for loop
NextBatch(r) ==
    /\ pc[r] = "inserting"
    /\ chunk[r] = <<>>
    /\ i[r] < Len(records[r])
    /\ chunk' = [chunk EXCEPT ![r] =
                   SubSeq(records[r], i[r] + 1,
                          IF i[r] + batch_size < Len(records[r])
                          THEN i[r] + batch_size ELSE Len(records[r]))]
    /\ i' = [i EXCEPT ![r] = @ + batch_size]
    /\ UNCHANGED <<store, created, pc, env, feed, rows, autocommit, records,
                   pending, inserted, fetched, err, io, table_name, store0, rerun, arg, ret>>

\* line 251: executemany runs the insert for the next record of the chunk; it
\* waits while another open transaction holds an uncommitted row of that id
ExecStmt(r) ==
    /\ pc[r] = "inserting"
    /\ chunk[r] # <<>>
    /\ \A o \in Runs \ {r} : ~Conflict(PendingRows(o), Head(chunk[r]))
    /\ LET w == insert_do_nothing(Apply(store, pending[r]), Head(chunk[r]))
       IN  IF autocommit[r]
           THEN store' = Apply(store, w) /\ pending' = pending
           ELSE store' = store /\ pending' = [pending EXCEPT ![r] = @ \o w]
    /\ chunk' = [chunk EXCEPT ![r] = Tail(@)]
    /\ Log(r, Event("insert", validated_table_name(table_name[r])))
    /\ UNCHANGED <<created, pc, env, feed, rows, autocommit, records, i, inserted,
                   fetched, err, table_name, store0, rerun,
                   arg, ret>>

\* lines 252-253 and 265-267: conn.commit(), return len(new_rows), print
Commit(r) ==
    /\ pc[r] = "inserting"
    /\ chunk[r] = <<>>
    /\ i[r] >= Len(records[r])
    /\ store' = Apply(store, pending[r])
    /\ pending' = [pending EXCEPT ![r] = <<>>]
    /\ Log(r, Event("commit", None))
    /\ Finish(r, Len(records[r]))
    /\ UNCHANGED <<created, env, feed, rows, autocommit, records, i, chunk, err,
                   table_name, store0, rerun, arg, ret>>

\* a database error, or the process is killed: the open transaction is rolled back
DbFail(r) ==
    /\ pc[r] \in {"connected", "ensured", "inserting"}
    /\ pending' = [pending EXCEPT ![r] = <<>>]
    /\ Fail(r, "db")
    /\ UNCHANGED <<store, created, env, feed, rows, autocommit, records, i, chunk,
                   inserted, fetched, io, table_name, store0, rerun,
                   arg, ret>>

\* the scheduler invokes the job again, in the same environment; after a
\* completed run the feed may be unchanged (the GET answers as before)
Restart(r) ==
    /\ pc[r] \in {"done", "failed"}
    /\ pc' = [pc EXCEPT ![r] = "start"]
    /\ rows' = [rows EXCEPT ![r] = <<>>]
    /\ autocommit' = [autocommit EXCEPT ![r] = FALSE]
    /\ records' = [records EXCEPT ![r] = <<>>]
    /\ i' = [i EXCEPT ![r] = 0]
    /\ chunk' = [chunk EXCEPT ![r] = <<>>]
    /\ inserted' = [inserted EXCEPT ![r] = -1]
    /\ fetched' = [fetched EXCEPT ![r] = -1]
    /\ err' = [err EXCEPT ![r] = ""]
    /\ io' = [io EXCEPT ![r] = <<>>]
    /\ table_name' = [table_name EXCEPT ![r] = None]
    /\ store0' = [store0 EXCEPT ![r] = <<>>]
    /\ \E same \in (IF pc[r] = "done" THEN BOOLEAN ELSE {FALSE}) :
         /\ rerun' = [rerun EXCEPT ![r] = same]
         /\ feed' = [feed EXCEPT ![r] = IF same THEN @ ELSE <<>>]
    /\ UNCHANGED <<store, created, env, pending, arg, ret>>

\* the variables that start the same under every specification
InitRest ==
    /\ store = <<>>
    /\ feed = [r \in Runs |-> <<>>]
    /\ autocommit = [r \in Runs |-> FALSE]
    /\ records = [r \in Runs |-> <<>>]
    /\ i = [r \in Runs |-> 0]
    /\ chunk = [r \in Runs |-> <<>>]
    /\ pending = [r \in Runs |-> <<>>]
    /\ inserted = [r \in Runs |-> -1]
    /\ fetched = [r \in Runs |-> -1]
    /\ err = [r \in Runs |-> ""]
    /\ store0 = [r \in Runs |-> <<>>]
    /\ rerun = [r \in Runs |-> FALSE]

\* no run has started; each has its environment from E
InitRuns(E) ==
    /\ created = FALSE
    /\ pc = [r \in Runs |-> "start"]
    /\ env \in [Runs -> E]
    /\ rows = [r \in Runs |-> <<>>]
    /\ io = [r \in Runs |-> <<>>]
    /\ table_name = [r \in Runs |-> None]
    /\ InitRest

Init ==
    /\ InitRuns({Env})
    /\ arg = None
    /\ ret = NotCalled

RunStep(r, F) ==
    \/ Import(r)
    \/ Validate(r)
    \/ Fetch(r, F)
    \/ FetchFail(r)
    \/ Connect(r)
    \/ EnsureTable(r)
    \/ Select(r)
    \/ NextBatch(r)
    \/ ExecStmt(r)
    \/ Commit(r)
    \/ DbFail(r)

\* two invocations that may overlap
Next == \E r \in Runs : RunStep(r, Feeds({R1a, R1b, R2a}, MaxFeedConc))

Spec == Init /\ [][Next]_vars

\* one invocation after the other
InitSeq ==
    /\ InitRuns(Envs)
    /\ env[2] = Env
    /\ arg = None
    /\ ret = NotCalled

NextSeq == RunStep(1, Feeds(FeedRecords, MaxFeed)) \/ Restart(1)

SpecSeq == InitSeq /\ [][NextSeq]_vars

---------------------------------------------------------------------------
(* The functions on their own: Init draws the argument, the action calls *)

RunVars == <<store, created, pc, env, feed, rows, autocommit, records, i, chunk,
             pending, inserted, fetched, err, io, table_name, store0, rerun>>

\* the sequences of at most n tokens of set toks
Texts(toks, n) == UNION {[1..k -> toks] : k \in 0..n}

\* the longest markup text of SpecHtml
MaxHtml == 3

Line1BrLine2 == <<"L", "i", "n", "e", "1", "<br>", "L", "i", "n", "e", "2">>

BoldText == <<"<b>", "b", "o", "l", "d", "</b>", " ", "t", "e", "x", "t">>

HtmlInputs ==
    {Str(s) : s \in Texts({"t", " ", "<br>", "<br/>", "<br />", "<b>", "</b>"}, MaxHtml)}
        \cup {None, Str(Line1BrLine2), Str(BoldText)}

InitHtml == InitRuns({Env}) /\ arg \in HtmlInputs /\ ret = NotCalled

CallHtml == ret = NotCalled /\ ret' = html_to_text(arg) /\ UNCHANGED <<RunVars, arg>>

SpecHtml == InitHtml /\ [][CallHtml]_vars

\* the button of the feed: <a onclick="window.open('descarga_pdf_oferta.php?hgcd=55')">
Button55 ==
    <<"<", "a", " ", "o", "n", "c", "l", "i", "c", "k", "=", "\"", "window", ".",
      "open", "(", "'", "descarga_pdf_oferta", ".", "php", "?", "h", "g", "c", "d",
      "=", "5", "5", "'", ")", "\"", ">">>

\* button texts around window.open('...descarga_pdf_oferta.php?...'), each part varied
Buttons ==
    {pre \o <<"window", dot, "open", "(", "'">> \o a \o <<"descarga_pdf_oferta">>
         \o sep \o <<"php", "?">> \o b \o close :
       pre \in {<<>>, <<"x">>}, dot \in {".", "x", "\n"},
       a \in {<<>>, <<"x">>, <<"http", "://", "x", "/">>, <<"/">>},
       sep \in {<<".">>, <<"\\", ".">>, <<"\\", "x">>, <<>>},
       b \in {<<>>, <<"x">>, <<"h", "=", "5">>},
       close \in {<<"'", ")">>, <<>>}}

PdfInputs == {Str(s) : s \in Buttons \cup {Button55, <<>>, <<"x">>}} \cup {None}

InitPdf == InitRuns({Env}) /\ arg \in PdfInputs /\ ret = NotCalled

CallPdf == ret = NotCalled /\ ret' = extract_pdf_url(arg, ORIGIN) /\ UNCHANGED <<RunVars, arg>>

SpecPdf == InitPdf /\ [][CallPdf]_vars

\* the positional fields of a raw record (clean(0) .. clean(13))
NumFields == 14

FieldValues ==
    {None, Str(<<>>), Str(<<"7">>), Str(<<" ", "x">>), Str(<<"1", "/", "2", "/", "3">>),
     Str(<<"<b>", "t", "<br>">>), IntVal(0), IntVal(5)}

\* raw records of every length up to one past the schema, one field varied
RawRecords ==
    {[k \in 1..n |-> IF k = p THEN v ELSE fill] :
       n \in 0..(NumFields + 1), p \in 1..NumFields, v \in FieldValues,
       fill \in {None, Str(<<"t">>)}}

InitParse == InitRuns({Env}) /\ arg \in RawRecords /\ ret = NotCalled

CallParse == ret = NotCalled /\ ret' = parse_row(arg, ORIGIN) /\ UNCHANGED <<RunVars, arg>>

SpecParse == InitParse /\ [][CallParse]_vars

\* the longest table name of SpecTable
MaxName == 3

Offers == <<"o", "f", "f", "e", "r", "s">>

OilOffers2024 == <<"o", "i", "l", "_", "o", "f", "f", "e", "r", "s", "_", "2", "0", "2", "4">>

OffersDropTable ==
    <<"o", "f", "f", "e", "r", "s", ";", " ", "d", "r", "o", "p", " ", "t", "a", "b",
      "l", "e", " ", "x">>

TableNames ==
    {Str(s) : s \in Texts({"a", "_", "1", " ", ";"}, MaxName)}
        \cup {None, Str(Offers), Str(OilOffers2024), Str(OffersDropTable)}

\* main() run with OFFERS_TABLE_NAME = arg, or ensure_table / upsert_rows called
\* with table_name = arg on an open connection
InitTable ==
    /\ arg \in TableNames
    /\ ret = NotCalled
    /\ \E entry \in {"main", "ensure_table", "upsert_rows", "upsert_rows_empty"} :
         /\ pc = [r \in Runs |->
                    IF r = 2 \/ entry = "main" THEN "start"
                    ELSE IF entry = "ensure_table" THEN "connected" ELSE "ensured"]
         /\ table_name = [r \in Runs |-> IF r = 2 \/ entry = "main" THEN None ELSE arg]
         /\ rows = [r \in Runs |->
                      IF r = 1 /\ entry \in {"ensure_table", "upsert_rows"}
                      THEN <<ParsedRecord[R1a]>> ELSE <<>>]
         /\ created = (entry \in {"upsert_rows", "upsert_rows_empty"})
         /\ io = [r \in Runs |->
                    IF r = 2 \/ entry = "main" THEN <<>> ELSE <<Event("connect", None)>>]
    /\ env = [r \in Runs |-> IF r = 1 THEN [Env EXCEPT !.table = arg] ELSE Env]
    /\ InitRest

SpecTable == InitTable /\ [][RunStep(1, {<<R1a>>})]_vars

---------------------------------------------------------------------------
(* Claims *)

Ids(tbl) == {tbl[k].id : k \in 1..Len(tbl)}

\* the number of records of feed f whose id field is an integer
ValidCount(f) == Cardinality({k \in 1..Len(f) : parse_id(clean(f[k], 0)).kind = "int"})

\* the number of events op in the log of run r
Count(r, op) == Cardinality({k \in 1..Len(io[r]) : io[r][k].op = op})

SqlOps == {"create", "select", "insert", "commit"}

\* C1: in every reachable state no two stored rows share an id, whatever the
\* feeds (duplicate ids included) and however the steps of two runs interleave.
C1_UniqueIds ==
    \A k1, k2 \in 1..Len(store) : k1 # k2 => store[k1].id # store[k2].id

\* both runs selected a row of the same id as new (neither saw the other's
\* insert), one of them from a feed that lists an id twice, and both completed
C1_Witness ==
    /\ pc[1] = "done" /\ pc[2] = "done"
    /\ Ids(records[1]) \cap Ids(records[2]) # {}
    /\ \E k1, k2 \in 1..Len(records[1]) : k1 # k2 /\ records[1][k1].id = records[1][k2].id
    /\ store # <<>>

\* C2: a run invoked after a completed run, against the unchanged feed and with
\* no other writer, changes no stored row at any step, and reports inserted = 0
\* and fetched = the number of feed records with a valid id.
C2_Idempotent ==
    /\ (rerun[1] /\ pc[1] # "start") => store = store0[1]
    /\ (rerun[1] /\ pc[1] = "done") =>
          /\ inserted[1] = 0
          /\ fetched[1] = ValidCount(feed[1])

\* the second run over a feed of two valid records and an invalid one completed
C2_Witness ==
    /\ rerun[1] /\ pc[1] = "done"
    /\ Len(feed[1]) = 3 /\ fetched[1] = 2
    /\ Cardinality(Ids(store)) = 2

\* C3: no step of any run changes or removes a committed row: the stored rows
\* stay as they are, in place, and rows are only added after them.
C3_FirstWriteWins ==
    [][\A k \in 1..Len(store) : k <= Len(store') /\ store'[k] = store[k]]_vars

\* a run that started when an id was stored, and fetched other content for that
\* id, has completed
C3_Witness ==
    \E r \in Runs :
        /\ pc[r] = "done"
        /\ \E k \in 1..Len(store0[r]), j \in 1..Len(rows[r]) :
              /\ store0[r][k].id = rows[r][j].id
              /\ store0[r][k] # rows[r][j]
              /\ store[k] = store0[r][k]

\* C4: the inserted count a run reports equals the number of rows the run added
\* to the store, and the fetched count the number of feed records with a valid
\* id, for every feed (ids not assumed distinct), when no other run overlaps.
C4_InsertedIsAdded ==
    pc[1] = "done" =>
        /\ inserted[1] = Len(store) - Len(store0[1])
        /\ fetched[1] = ValidCount(feed[1])

\* C5: whenever a run ends with a configuration error (origin URL, table name,
\* database credentials), it has performed no I/O.
C5_ConfigErrorBeforeIO ==
    (pc[1] = "failed" /\ err[1] \in {"config_url", "config_table", "config_db"})
        => io[1] = <<>>

\* C10: none of a run's rows is stored before its single commit, which follows
\* the last batch on a connection that is not in autocommit mode: while the run
\* inserts, and after it failed, the store is as it was when the run started.
C10_AtomicCommit ==
    /\ pc[1] \in {"imported", "validated", "fetched", "connected", "ensured",
                  "inserting", "failed"} => store = store0[1]
    /\ pc[1] \in {"ensured", "inserting"} => ~autocommit[1]
    /\ Count(1, "commit") <= 1
    /\ Count(1, "commit") = 1 =>
          /\ pc[1] = "done"
          /\ io[1][Len(io[1])].op = "commit"
          /\ Count(1, "insert") = Len(records[1])
          /\ store = Apply(store0[1], [k \in 1..(Len(store) - Len(store0[1])) |->
                                         [op |-> "insert", row |-> store[Len(store0[1]) + k]]])

\* the run failed in its second batch, after the inserts of the first
C10_Witness ==
    /\ pc[1] = "failed" /\ err[1] = "db"
    /\ i[1] = 2 * batch_size
    /\ Count(1, "insert") > batch_size
    /\ Count(1, "commit") = 0


\* letters, digits and underscores, not starting with a digit
IsIdent(s) ==
    /\ s # <<>>
    /\ s[1] \notin Digits
    /\ \A k \in 1..Len(s) : s[k] \in Letters \cup Digits \cup {"_"}

Trimmed(name) == IF name.kind = "str" THEN RStrip(LStrip(name.s)) ELSE <<>>

\* the tables the SQL statements of run 1 name
SqlTables == {io[1][k].table : k \in {j \in 1..Len(io[1]) : io[1][j].op \in {"create", "select", "insert"}}}

NoSql == \A k \in 1..Len(io[1]) : io[1][k].op \notin SqlOps

C7_Total ==
    ret # NotCalled => (~Raised(ret) /\ ret.id.kind \in {"int", "none"})

\* the path of the first window.open('<path>') of button text s whose path holds
\* descarga_pdf_oferta.php? and a query after it; <<>> when there is none
ClaimedPathAt(s, p) ==
    IF /\ p + 4 <= Len(s)
       /\ SubSeq(s, p, p + 4) = <<"window", ".", "open", "(", "'">>
       /\ NextQuote(s, p + 5) # 0
    THEN LET g == SubSeq(s, p + 5, NextQuote(s, p + 5) - 1)
         IN  IF \E k \in 1..Len(g) :
                    /\ k + 4 <= Len(g)
                    /\ SubSeq(g, k, k + 3) = <<"descarga_pdf_oferta", ".", "php", "?">>
             THEN g ELSE <<>>
    ELSE <<>>

RECURSIVE ClaimedPath(_, _)
ClaimedPath(s, p) ==
    IF p > Len(s) THEN <<>>
    ELSE IF ClaimedPathAt(s, p) # <<>> THEN ClaimedPathAt(s, p)
    ELSE ClaimedPath(s, p + 1)

\* C8: for a button with window.open('<path>'), the path ending in
\* descarga_pdf_oferta.php? and a non-empty query, extract_pdf_url returns the
\* path if it is absolute and the origin URL joined with it otherwise; for any
\* other button it returns None.
C8_PdfUrl ==
    ret # NotCalled =>
        LET g == IF arg.kind = "str" THEN ClaimedPath(arg.s, 1) ELSE <<>>
        IN  ret = IF g = <<>> THEN None
                  ELSE IF g[1] = "http" THEN Str(g)
                  ELSE Str(urljoin(ORIGIN.s, g))

\* one pass over the text: a <br> becomes a line break, another tag is dropped,
\* and text that follows a tag, with text before it, starts on a new line
RECURSIVE Collapse(_, _, _)
Collapse(s, seen, sep) ==
    IF s = <<>> THEN <<>>
    ELSE IF Head(s) \in OtherTags THEN Collapse(Tail(s), seen, seen)
    ELSE (IF sep THEN <<"\n">> ELSE <<>>)
             \o <<IF Head(s) \in BrTags THEN "\n" ELSE Head(s)>>
             \o Collapse(Tail(s), TRUE, FALSE)

\* the text with its <br> made line breaks and its other tags dropped
RECURSIVE DropTags(_)
DropTags(s) ==
    IF s = <<>> THEN <<>>
    ELSE IF Head(s) \in OtherTags THEN DropTags(Tail(s))
    ELSE <<IF Head(s) \in BrTags THEN "\n" ELSE Head(s)>> \o DropTags(Tail(s))

====
